---- MODULE Spec2Model ----
(***************************************************************************)
(* Model of src/App.tsx of zenith-x: the batched image preloader           *)
(* (loadBatch / loadAllImages), the React state it publishes to            *)
(* (images, isLoading), and the canvas rendering effect (render,           *)
(* handleResize, the frameIndex change subscription).                      *)
(*                                                                         *)
(* Conventions.                                                            *)
(*  - A JavaScript array is a sequence; JS index i is position i + 1.      *)
(*    An empty slot (undefined) is Hole.                                   *)
(*  - heap is the sequence of HTMLImageElement objects created by          *)
(*    `new Image()`; an image object is named by its position in heap.     *)
(*  - One action is one browser task run to completion, with the           *)
(*    microtasks (promise continuations) it triggers.                      *)
(*  - smoothProgress is a rational number with denominator PDen.           *)
(*  - The geometry render computes is in IEEE 754 binary64 arithmetic.     *)
(***************************************************************************)
EXTENDS Integers, Sequences, FiniteSets, TLC

VARIABLES
    heap,           \* image objects created so far: their load state
    loadedImages,   \* the loader's working array (App.tsx:48)
    batchPromises,  \* image objects whose promise the pending Promise.all awaits
    loopIndex,      \* loadAllImages' loop variable i (App.tsx:70)
    loaderPc,       \* "await" (suspended at App.tsx:71) or "done"
    published,      \* latest value passed to setImages (App.tsx:73)
    uncommitted,    \* setImages calls React has not rendered yet
    images,         \* the images value the mounted canvas effect closes over
    subscribed,     \* canvas effect's listeners attached (App.tsx:167-172)
    isLoading,      \* React state isLoading (App.tsx:18)
    timers,         \* pending setTimeout callbacks (App.tsx:78)
    issueLog,       \* history: <<start, end>> of every loadBatch call
    publishLog,     \* history: loop index of every setImages call
    timerLog,       \* history: loop index of every setTimeout call
    smoothProgress, \* numerator of the smoothed scroll progress (App.tsx:92)
    viewport,       \* window.innerWidth / innerHeight
    canvas,         \* canvas.width / canvas.height
    surface,        \* what the canvas bitmap shows
    pass,           \* history: what the most recent render call did
    frameSize,      \* natural size of the frames of the sequence
    failing,        \* indices of the images the server has no file for
    mounted,        \* App is mounted
    lenis,          \* the Lenis instance (App.tsx:24): "running", "destroyed"
    rafPending,     \* an animation frame callback raf is requested
    lastTick        \* history: state of lenis when raf last ran, or "none"

loaderVars == <<heap, loadedImages, batchPromises, loopIndex, loaderPc,
                published, uncommitted, timers, issueLog, publishLog, timerLog>>
reactVars  == <<images, subscribed, isLoading>>
canvasVars == <<smoothProgress, viewport, canvas, surface, pass>>
envVars    == <<frameSize, failing>>
lenisVars  == <<mounted, lenis, rafPending, lastTick>>
vars == <<heap, loadedImages, batchPromises, loopIndex, loaderPc, published,
          uncommitted, images, subscribed, isLoading, timers, issueLog,
          publishLog, timerLog, smoothProgress, viewport, canvas, surface,
          pass, frameSize, failing, mounted, lenis, rafPending, lastTick>>

----------------------------------------------------------------------------
(* Program constants *)

\* imagePaths.length (App.tsx:12)
imagePathsLength == 144
\* BATCH_SIZE (App.tsx:49)
BATCH_SIZE == 5
\* output range of frameIndex (App.tsx:98)
LastFrame == 143

(* Bounds of the model *)

\* setImages calls that may be pending before React renders
MaxUncommitted == 1

Hole == 0

Min(a, b) == IF a <= b THEN a ELSE b

----------------------------------------------------------------------------
(* The asset loader *)

\* arr[i] on a JS array: undefined (Hole) outside the array
ArrayGet(arr, i) ==
    IF i >= 0 /\ i < Len(arr) THEN arr[i + 1] ELSE Hole

\* mutant of endIndex: the batch is not cut at the end of the sequence
endIndexUnclamped(startIndex) == startIndex + BATCH_SIZE

\* endIndex of loadBatch (App.tsx:52)
endIndex(startIndex) == Min(startIndex + BATCH_SIZE, imagePathsLength)

\* The for loop of loadBatch (App.tsx:55-64) over the indices start..stop-1,
\* on heap h and array arr: iteration i creates an image object, which
\* starts loading imagePaths[i], stores it in loadedImages[i] at once (a
\* write past the end of a JS array leaves empty slots in between) and
\* pushes its promise. The image created for index i is object
\* Len(h) + 1 + (i - start).
loadBatchLoop(h, arr, start, stop) ==
    LET n == IF stop > start THEN stop - start ELSE 0
        len == IF n > 0 /\ stop > Len(arr) THEN stop ELSE Len(arr)
    IN [heap |-> h \o [k \in 1..n |-> [src |-> start + k - 1,
                                        state |-> "loading"]],
        loadedImages |->
            [k \in 1..len |->
                IF k - 1 >= start /\ k - 1 < stop THEN Len(h) + (k - start)
                ELSE IF k <= Len(arr) THEN arr[k]
                ELSE Hole],
        batchPromises |-> (Len(h) + 1)..(Len(h) + n)]

\* mutant of loadBatch: every batch fills an array of its own
loadBatchFreshArray(h, arr, startIndex) ==
    loadBatchLoop(h, <<>>, startIndex, endIndex(startIndex))

\* loadBatch(startIndex) up to its await (App.tsx:51-66)
loadBatch(h, arr, startIndex) ==
    loadBatchLoop(h, arr, startIndex, endIndex(startIndex))

\* mutant of PromiseAllResolved: the first settled promise resumes the loader
PromiseRaceResolved(h, promises) ==
    \E img \in promises : h[img].state # "loading"

\* mutant of PromiseAllResolved: onerror does not resolve its promise
PromiseAllLoaded(h, promises) ==
    \A img \in promises : h[img].state = "complete"

\* Promise.all(batchPromises) is resolved (App.tsx:66): every promise of the
\* batch is resolved, by onload or by onerror
PromiseAllResolved(h, promises) ==
    \A img \in promises : h[img].state # "loading"

\* mutant of SchedulesReady: every batch schedules the timeout
SchedulesReadyAlways(i) == i >= 0

\* if (i === 0) of loadAllImages (App.tsx:76)
SchedulesReady(i) == i = 0

\* mutant of loadAllImagesResume: setImages(loadedImages), the working
\* array itself and not a copy of it
loadAllImagesResumeAliased(h) ==
    LET next == loopIndex + BATCH_SIZE IN
    /\ publishLog' = Append(publishLog, loopIndex)
    /\ uncommitted' = IF mounted THEN uncommitted + 1 ELSE uncommitted
    /\ IF SchedulesReady(loopIndex)
       THEN /\ timers' = timers + 1
            /\ timerLog' = Append(timerLog, loopIndex)
       ELSE UNCHANGED <<timers, timerLog>>
    /\ loopIndex' = next
    /\ IF next < imagePathsLength
       THEN LET b == loadBatch(h, loadedImages, next) IN
            /\ heap' = b.heap
            /\ loadedImages' = b.loadedImages
            /\ batchPromises' = b.batchPromises
            /\ issueLog' = Append(issueLog, <<next, endIndex(next)>>)
            /\ loaderPc' = "await"
       ELSE /\ heap' = h
            /\ batchPromises' = {}
            /\ loaderPc' = "done"
            /\ UNCHANGED <<loadedImages, issueLog>>
    /\ published' = loadedImages'

\* loadAllImages from the point where `await loadBatch(i)` resumes to its
\* next suspension or its end (App.tsx:70-80): publish a copy of
\* loadedImages, schedule the loading screen's removal after batch 0, then
\* start the next batch. h is the heap after the settling event. React
\* ignores a state update of a component that is not mounted any more.
loadAllImagesResume(h) ==
    LET next == loopIndex + BATCH_SIZE IN
    /\ published' = loadedImages
    /\ publishLog' = Append(publishLog, loopIndex)
    /\ uncommitted' = IF mounted THEN uncommitted + 1 ELSE uncommitted
    /\ IF SchedulesReady(loopIndex)
       THEN /\ timers' = timers + 1
            /\ timerLog' = Append(timerLog, loopIndex)
       ELSE UNCHANGED <<timers, timerLog>>
    /\ loopIndex' = next
    /\ IF next < imagePathsLength
       THEN LET b == loadBatch(h, loadedImages, next) IN
            /\ heap' = b.heap
            /\ loadedImages' = b.loadedImages
            /\ batchPromises' = b.batchPromises
            /\ issueLog' = Append(issueLog, <<next, endIndex(next)>>)
            /\ loaderPc' = "await"
       ELSE /\ heap' = h
            /\ batchPromises' = {}
            /\ loaderPc' = "done"
            /\ UNCHANGED <<loadedImages, issueLog>>

\* img.onload / img.onerror (App.tsx:59-60): the image object settles and
\* its promise resolves; when that resolves Promise.all, loadAllImages
\* resumes in the same task (microtask).
Settle(img, outcome) ==
    /\ img \in DOMAIN heap
    /\ heap[img].state = "loading"
    /\ LET h == [heap EXCEPT ![img].state = outcome] IN
       IF loaderPc = "await" /\ img \in batchPromises
                            /\ PromiseAllResolved(h, batchPromises)
       THEN /\ uncommitted < MaxUncommitted
            /\ loadAllImagesResume(h)
       ELSE /\ heap' = h
            /\ UNCHANGED <<loadedImages, batchPromises, loopIndex, loaderPc,
                           published, uncommitted, timers, issueLog,
                           publishLog, timerLog>>
    /\ UNCHANGED <<reactVars, canvasVars, envVars, lenisVars>>

\* the load event of an image object
OnLoad ==
    \E img \in DOMAIN heap :
        /\ heap[img].src \notin failing
        /\ Settle(img, "complete")

\* the error event of an image object
OnError ==
    \E img \in DOMAIN heap :
        /\ heap[img].src \in failing
        /\ Settle(img, "broken")

\* the timeout callback () => setIsLoading(false) (App.tsx:78)
TimerFires ==
    /\ timers > 0
    /\ timers' = timers - 1
    /\ isLoading' = IF mounted THEN FALSE ELSE isLoading
    /\ UNCHANGED <<heap, loadedImages, batchPromises, loopIndex, loaderPc,
                   published, uncommitted, issueLog, publishLog, timerLog,
                   images, subscribed, canvasVars, envVars, lenisVars>>

----------------------------------------------------------------------------
(* Scroll progress and frame selection *)

\* smoothProgress = p / PDen; one frame of the sequence is 20 units
PDen == 20 * LastFrame

\* useTransform(smoothProgress, [0, 1], [0, 143]) (App.tsx:98): linear
\* interpolation, clamped to the input range (the transform's default).
\* The result is the numerator of a fraction over PDen.
frameIndex(p) ==
    LastFrame * (IF p < 0 THEN 0 ELSE IF p > PDen THEN PDen ELSE p)

\* mutant of MathRound: Math.floor
MathFloor(n) == n \div PDen

\* Math.round(index) (App.tsx:131) of the fraction n / PDen: the nearest
\* integer, a tie going up
MathRound(n) == (2 * n + PDen) \div (2 * PDen)

----------------------------------------------------------------------------
(* The overlay texts *)

\* the progress k / 100 as a numerator over PDen
Percent(k) == (k * PDen) \div 100

\* the segment of inputRange that value v is interpolated in: the first
\* whose upper end lies above v, the last one otherwise
Segment(v, inputRange) ==
    IF \E k \in 1..(Len(inputRange) - 2) : v < inputRange[k + 1]
    THEN CHOOSE k \in 1..(Len(inputRange) - 2) :
            /\ v < inputRange[k + 1]
            /\ \A j \in 1..(k - 1) : ~(v < inputRange[j + 1])
    ELSE Len(inputRange) - 1

\* from + (to - from) * progress in segment k of the ranges, where progress
\* is (v - a) / (b - a) for the segment's ends a and b: a fraction
Mix(v, inputRange, outputRange, k) ==
    [num |-> outputRange[k] * (inputRange[k + 1] - inputRange[k])
             + (outputRange[k + 1] - outputRange[k]) * (v - inputRange[k]),
     den |-> inputRange[k + 1] - inputRange[k]]

\* mutant of transform: no clamping (clamp: false)
transformUnclamped(p, inputRange, outputRange) ==
    Mix(p, inputRange, outputRange, Segment(p, inputRange))

\* the value of useTransform(smoothProgress, inputRange, outputRange)
\* (App.tsx:101-119) at progress p: piecewise linear interpolation, the
\* input clamped to the range's ends (the transform's default)
transform(p, inputRange, outputRange) ==
    LET v == IF p < inputRange[1] THEN inputRange[1]
             ELSE IF p > inputRange[Len(inputRange)]
             THEN inputRange[Len(inputRange)]
             ELSE p
    IN Mix(v, inputRange, outputRange, Segment(v, inputRange))

\* text1Opacity (App.tsx:101-105)
text1Opacity(p) ==
    transform(p, <<Percent(0), Percent(15), Percent(25), Percent(35)>>,
              <<0, 1, 1, 0>>)

\* text2Opacity (App.tsx:108-112)
text2Opacity(p) ==
    transform(p, <<Percent(35), Percent(50), Percent(60), Percent(70)>>,
              <<0, 1, 1, 0>>)

\* text3Opacity (App.tsx:115-119)
text3Opacity(p) ==
    transform(p, <<Percent(70), Percent(85), Percent(95), Percent(100)>>,
              <<0, 1, 1, 0>>)

----------------------------------------------------------------------------
(* JavaScript numbers *)

\* The numbers of render's arithmetic (App.tsx:137-142, 156-157) are IEEE
\* 754 binary64 values, and every operation rounds its exact result to the
\* nearest of them, a tie going to the even one.  The magnitude of a value
\* is a fixed-point binary number: Limbs digits in base LimbBase, the least
\* significant first, PointLimb of them behind the binary point.  For
\* sizes below 2^12 every value the arithmetic produces has its 53
\* significant bits within these digits, so it is represented exactly.
LimbBits == 18
Limbs == 6
PointLimb == 4
LimbBase == 2 ^ LimbBits
\* significant bits of a binary64 value
Mantissa == 53

\* the digits f[1], ..., f[Limbs] of function f as a sequence
Limbwise(f) == <<f[1], f[2], f[3], f[4], f[5], f[6]>>

Zero == Limbwise([i \in 1..Limbs |-> 0])

\* the integer c, 0 <= c < LimbBase^2
FromInt(c) ==
    Limbwise([i \in 1..Limbs |->
        IF i = PointLimb + 1 THEN c % LimbBase
        ELSE IF i = PointLimb + 2 THEN c \div LimbBase
        ELSE 0])

\* bit j of x, bit 0 being the least significant
Bit(x, j) == (x[(j \div LimbBits) + 1] \div (2 ^ (j % LimbBits))) % 2

\* the most significant non-zero digit of x # Zero
TopLimb(x) ==
    CHOOSE i \in 1..Limbs : x[i] # 0 /\ \A m \in (i + 1)..Limbs : x[m] = 0

\* the most significant set bit of x # Zero
Top(x) ==
    LimbBits * (TopLimb(x) - 1)
    + (CHOOSE b \in 0..(LimbBits - 1) :
          2 ^ b <= x[TopLimb(x)] /\ x[TopLimb(x)] < 2 ^ (b + 1))

\* x with the bits below bit cut cleared
Truncate(x, cut) ==
    Limbwise([i \in 1..Limbs |->
        IF cut - LimbBits * (i - 1) <= 0 THEN x[i]
        ELSE IF cut - LimbBits * (i - 1) >= LimbBits THEN 0
        ELSE x[i] - (x[i] % (2 ^ (cut - LimbBits * (i - 1))))])

\* x + 2^j, the carry rippling upwards
AddBit(x, j) ==
    Limbwise([i \in 1..Limbs |->
        IF i < (j \div LimbBits) + 1 THEN x[i]
        ELSE IF i = (j \div LimbBits) + 1
        THEN (x[i] + 2 ^ (j % LimbBits)) % LimbBase
        ELSE IF /\ x[(j \div LimbBits) + 1] + 2 ^ (j % LimbBits) >= LimbBase
                /\ \A m \in ((j \div LimbBits) + 2)..(i - 1) :
                      x[m] = LimbBase - 1
        THEN (x[i] + 1) % LimbBase
        ELSE x[i]])

\* x rounded to a multiple of 2^cut, to nearest and a tie to even; sticky
\* says that the exact value has non-zero bits below those of x
RoundCut(x, sticky, cut) ==
    IF cut <= 0 THEN x
    ELSE IF /\ Bit(x, cut - 1) = 1
            /\ \/ sticky
               \/ Truncate(x, cut - 1) # x
               \/ Bit(x, cut) = 1
    THEN AddBit(Truncate(x, cut), cut)
    ELSE Truncate(x, cut)

\* the binary64 value nearest to x: Mantissa significant bits are kept
RoundNearestEven(x, sticky) ==
    IF x = Zero THEN x ELSE RoundCut(x, sticky, Top(x) - (Mantissa - 1))

\* LimbBase^k modulo b
BaseMod(k, b) ==
    LET m[j \in 0..PointLimb] ==
            IF j = 0 THEN 1 % b ELSE (m[j - 1] * (LimbBase % b)) % b
    IN m[k]

\* the remainder of the long division a / b after k digits behind the point
Remainder(a, b, k) == ((a % b) * BaseMod(k, b)) % b

\* a / b cut off after PointLimb digits behind the point
Quotient(a, b) ==
    Limbwise([i \in 1..Limbs |->
        IF i <= PointLimb
        THEN (Remainder(a, b, PointLimb - i) * LimbBase) \div b
        ELSE IF i = PointLimb + 1 THEN a \div b
        ELSE 0])

\* the JavaScript quotient a / b of integers 0 <= a and 0 < b, both below
\* LimbBase
Divide(a, b) ==
    RoundNearestEven(Quotient(a, b), Remainder(a, b, PointLimb) # 0)

\* the carry out of digit i of the product n * x
MulCarry(n, x, i) ==
    LET c[j \in 0..Limbs] ==
            IF j = 0 THEN 0 ELSE (n * x[j] + c[j - 1]) \div LimbBase
    IN c[i]

\* the exact product n * x of an integer and a magnitude
MulInt(n, x) ==
    Limbwise([i \in 1..Limbs |->
        (n * x[i] + MulCarry(n, x, i - 1)) % LimbBase])

\* the JavaScript product n * x
Multiply(n, x) == RoundNearestEven(MulInt(n, x), FALSE)

\* x < y
Less(x, y) ==
    \E i \in 1..Limbs : x[i] < y[i] /\ \A m \in (i + 1)..Limbs : x[m] = y[m]

\* Math.max(x, y) (App.tsx:139)
MathMax(x, y) == IF Less(x, y) THEN y ELSE x

\* the borrow out of digit i of the difference x - y
Borrow(x, y, i) ==
    LET c[j \in 0..Limbs] ==
            IF j = 0 THEN 0
            ELSE IF x[j] - y[j] - c[j - 1] < 0 THEN 1 ELSE 0
    IN c[i]

\* the exact difference x - y of magnitudes, y <= x
Sub(x, y) ==
    Limbwise([i \in 1..Limbs |->
        (x[i] - y[i] - Borrow(x, y, i - 1) + LimbBase) % LimbBase])

\* x / 2, which is exact
Half(x) ==
    Limbwise([i \in 1..Limbs |->
        x[i] \div 2
        + (IF i < Limbs THEN (x[i + 1] % 2) * (LimbBase \div 2) ELSE 0)])

\* a number: its sign and its magnitude
Number(neg, mag) == [neg |-> neg, mag |-> mag]

\* the JavaScript value (c - x) / 2 for an integer c and a magnitude x
\* (App.tsx:141-142)
centerShift(c, x) ==
    IF Less(FromInt(c), x)
    THEN Number(TRUE, Half(RoundNearestEven(Sub(x, FromInt(c)), FALSE)))
    ELSE Number(FALSE, Half(RoundNearestEven(Sub(FromInt(c), x), FALSE)))

----------------------------------------------------------------------------
(* Sizes *)

\* window sizes the resize events choose from
Viewports == {[w |-> 1920, h |-> 1080], [w |-> 393, h |-> 873]}

\* natural sizes of the frames
FrameSizes == {[w |-> 1280, h |-> 720]}

\* window sizes of the renderer alone
RenderViewports == {[w |-> 1920, h |-> 1080], [w |-> 393, h |-> 873],
                    [w |-> 1366, h |-> 768]}

\* frame sizes of the renderer alone
RenderFrameSizes == {[w |-> 1280, h |-> 720], [w |-> 1158, h |-> 770]}

----------------------------------------------------------------------------
(* The canvas rendering effect *)

\* an empty (transparent) canvas bitmap
Blank == [img |-> Hole, dx |-> Number(FALSE, Zero), dy |-> Number(FALSE, Zero),
          dw |-> Number(FALSE, Zero), dh |-> Number(FALSE, Zero)]

\* no render call has happened yet
NoPass == [trigger |-> "none", progress |-> 0, index |-> 0, img |-> Hole,
           cleared |-> FALSE, drew |-> FALSE]

\* img.width, img.height (App.tsx:137-138): the natural size of a
\* completely loaded image, 0 for one that is loading or broken
imgWidth(h, img) == IF h[img].state = "complete" THEN frameSize.w ELSE 0
imgHeight(h, img) == IF h[img].state = "complete" THEN frameSize.h ELSE 0

\* canvas.width / img.width (App.tsx:137)
hRatio(cw, iw) == Divide(cw, iw)

\* canvas.height / img.height (App.tsx:138)
vRatio(ch, ih) == Divide(ch, ih)

\* Math.max(hRatio, vRatio) (App.tsx:139), for an image of positive size
ratio(cw, ch, iw, ih) == MathMax(hRatio(cw, iw), vRatio(ch, ih))

\* destination offset and size render passes to ctx.drawImage
\* (App.tsx:141-142, 154-157) for an image of positive size iw x ih on a
\* cw x ch canvas
destination(cw, ch, iw, ih) ==
    LET r == ratio(cw, ch, iw, ih)
        scaledWidth == Multiply(iw, r)      \* img.width * ratio
        scaledHeight == Multiply(ih, r)     \* img.height * ratio
    IN [dx |-> centerShift(cw, scaledWidth),
        dy |-> centerShift(ch, scaledHeight),
        dw |-> Number(FALSE, scaledWidth),
        dh |-> Number(FALSE, scaledHeight)]

\* destination, computed once for the sizes of the model
destinations ==
    [v \in Viewports \cup RenderViewports,
     f \in FrameSizes \cup RenderFrameSizes |->
        destination(v.w, v.h, f.w, f.h)]

\* what the canvas shows after ctx.drawImage (App.tsx:148-158) has drawn
\* image img of positive size iw x ih on a cw x ch canvas
drawImage(img, cw, ch, iw, ih) ==
    LET v == [w |-> cw, h |-> ch]
        f == [w |-> iw, h |-> ih]
        d == IF <<v, f>> \in DOMAIN destinations
             THEN destinations[v, f]
             ELSE destination(cw, ch, iw, ih)
    IN [img |-> img, dx |-> d.dx, dy |-> d.dy, dw |-> d.dw, dh |-> d.dh]

\* render(index) (App.tsx:130-159) with the effect's images array imgs, on
\* canvas cnv showing surf: the surface afterwards and what the pass did.
\* An image of width or height 0 makes the ratio infinite and the drawImage
\* arguments NaN, and drawImage with a NaN argument draws nothing.
render(imgs, h, index, cnv, surf, trigger, p) ==
    LET idx == MathRound(index)
        img == ArrayGet(imgs, idx)
    IN IF img = Hole
       THEN [surface |-> surf,
             pass |-> [trigger |-> trigger, progress |-> p, index |-> idx,
                       img |-> Hole, cleared |-> FALSE, drew |-> FALSE]]
       ELSE IF imgWidth(h, img) = 0 \/ imgHeight(h, img) = 0
       THEN [surface |-> Blank,
             pass |-> [trigger |-> trigger, progress |-> p, index |-> idx,
                       img |-> img, cleared |-> TRUE, drew |-> FALSE]]
       ELSE [surface |-> drawImage(img, cnv.w, cnv.h,
                                   imgWidth(h, img), imgHeight(h, img)),
             pass |-> [trigger |-> trigger, progress |-> p, index |-> idx,
                       img |-> img, cleared |-> TRUE, drew |-> TRUE]]

\* mutant of handleResize: the canvas keeps its size
handleResizeStale(imgs, h, v, trigger) ==
    LET r == render(imgs, h, frameIndex(smoothProgress), canvas, Blank,
                    trigger, smoothProgress)
    IN /\ canvas' = canvas
       /\ surface' = r.surface
       /\ pass' = r.pass

\* handleResize (App.tsx:161-165) when the window has size v: assigning
\* canvas.width / canvas.height resizes the bitmap, which empties it; then
\* the current frame is rendered
handleResize(imgs, h, v, trigger) ==
    LET r == render(imgs, h, frameIndex(smoothProgress), v, Blank, trigger,
                    smoothProgress)
    IN /\ canvas' = v
       /\ surface' = r.surface
       /\ pass' = r.pass

\* mutant of Commit: the effect attaches its listeners and does not call
\* handleResize itself
CommitListenOnly ==
    /\ mounted
    /\ uncommitted > 0
    /\ uncommitted' = 0
    /\ images' = published
    /\ subscribed' = (Len(published) # 0)
    /\ UNCHANGED <<canvas, surface, pass>>
    /\ UNCHANGED <<heap, loadedImages, batchPromises, loopIndex, loaderPc,
                   published, timers, issueLog, publishLog, timerLog,
                   isLoading, smoothProgress, viewport, envVars, lenisVars>>

\* React renders App with the published images and runs the canvas effect
\* again (App.tsx:123-178): the previous run's cleanup, then the body
Commit ==
    /\ mounted
    /\ uncommitted > 0
    /\ uncommitted' = 0
    /\ images' = published
    /\ IF Len(published) = 0
       THEN /\ subscribed' = FALSE
            /\ UNCHANGED <<canvas, surface, pass>>
       ELSE /\ subscribed' = TRUE
            /\ handleResize(published, heap, viewport, "mount")
    /\ UNCHANGED <<heap, loadedImages, batchPromises, loopIndex, loaderPc,
                   published, timers, issueLog, publishLog, timerLog,
                   isLoading, smoothProgress, viewport, envVars, lenisVars>>

\* the window's resize event: the viewport takes size v
ResizeTo(v) ==
    /\ v # viewport
    /\ viewport' = v
    /\ IF subscribed
       THEN handleResize(images, heap, v, "resize")
       ELSE UNCHANGED <<canvas, surface, pass>>
    /\ UNCHANGED <<loaderVars, reactVars, smoothProgress, envVars,
                   lenisVars>>

\* smoothProgress takes value p; when that changes frameIndex, its
\* "change" subscribers run: render(latest) (App.tsx:170-172)
ProgressTo(p) ==
    /\ p # smoothProgress
    /\ smoothProgress' = p
    /\ IF subscribed /\ frameIndex(p) # frameIndex(smoothProgress)
       THEN LET r == render(images, heap, frameIndex(p), canvas, surface,
                           "change", p)
            IN /\ surface' = r.surface
               /\ pass' = r.pass
       ELSE UNCHANGED <<surface, pass>>
    /\ UNCHANGED <<loaderVars, reactVars, viewport, canvas, envVars,
                   lenisVars>>

----------------------------------------------------------------------------
(* The smooth-scroll effect and unmounting *)

\* an animation frame: the browser runs the requested callback raf
\* (App.tsx:34-37), which calls lenis.raf(time) and requests the next
\* animation frame
RafTick ==
    /\ rafPending
    /\ lastTick' = lenis
    /\ rafPending' = TRUE
    /\ UNCHANGED <<loaderVars, reactVars, canvasVars, envVars, mounted,
                   lenis>>

\* React unmounts App and runs the cleanups of its effects: lenis.destroy()
\* (App.tsx:41-43) and, when the canvas effect had attached them, the
\* removal of its listeners (App.tsx:174-177); the loader effect has no
\* cleanup.  State updates that were pending are dropped.
Unmount ==
    /\ mounted
    /\ mounted' = FALSE
    /\ lenis' = "destroyed"
    /\ subscribed' = FALSE
    /\ uncommitted' = 0
    /\ UNCHANGED <<heap, loadedImages, batchPromises, loopIndex, loaderPc,
                   published, timers, issueLog, publishLog, timerLog,
                   images, isLoading, canvasVars, envVars, rafPending,
                   lastTick>>

----------------------------------------------------------------------------
(* Inputs of the model *)

\* values the smoothed progress takes: 0, the tie between frames 35 and
\* 36, above 1
ProgressValues == {0, 710, PDen + 20}

\* sets of images that fail to load
FailingSets == {{}, {36}}

\* the canvas element's default size
DefaultCanvas == [w |-> 300, h |-> 150]

----------------------------------------------------------------------------
(* The state machine *)

\* App has mounted: the loader effect has called loadAllImages, which
\* started batch 0 and is suspended (App.tsx:83); the canvas effect has
\* returned at once, images being empty (App.tsx:124); the document is
\* scrolled to progress p
MountedAt(p) ==
    LET b == loadBatch(<<>>, <<>>, 0) IN
    /\ heap = b.heap
    /\ loadedImages = b.loadedImages
    /\ batchPromises = b.batchPromises
    /\ loopIndex = 0
    /\ loaderPc = "await"
    /\ published = <<>>
    /\ uncommitted = 0
    /\ images = <<>>
    /\ subscribed = FALSE
    /\ isLoading = TRUE
    /\ timers = 0
    /\ issueLog = << <<0, endIndex(0)>> >>
    /\ publishLog = <<>>
    /\ timerLog = <<>>
    /\ smoothProgress = p
    /\ canvas = DefaultCanvas
    /\ surface = Blank
    /\ pass = NoPass
    /\ mounted = TRUE
    /\ lenis = "running"
    /\ rafPending = TRUE
    /\ lastTick = "none"

\* App has mounted on a document scrolled to its top
Mounted == MountedAt(0)

Init ==
    /\ Mounted
    /\ viewport \in Viewports
    /\ frameSize \in FrameSizes
    /\ failing \in FailingSets

Resize == \E v \in Viewports : ResizeTo(v)

ProgressChange == \E p \in ProgressValues : ProgressTo(p)

Next ==
    \/ OnLoad
    \/ OnError
    \/ TimerFires
    \/ Commit
    \/ Resize
    \/ ProgressChange

Spec == Init /\ [][Next]_vars

----------------------------------------------------------------------------
(* The loader alone, with the fairness its scheduling gives: every image  *)
(* load that was started settles, React renders a state update it was     *)
(* given, and a timeout that was set fires.                               *)

\* sets of images that fail to load, for the loader alone
LoaderFailingSets ==
    {{}, {0}, {36}, {143}, {0, 1, 2, 3, 4}, {0, 36, 72, 143}}

InitLoader ==
    /\ Mounted
    /\ viewport = [w |-> 1920, h |-> 1080]
    /\ frameSize = [w |-> 1280, h |-> 720]
    /\ failing \in LoaderFailingSets

NextLoader ==
    \/ OnLoad
    \/ OnError
    \/ TimerFires
    \/ Commit

FairLoaderSpec ==
    /\ InitLoader
    /\ [][NextLoader]_vars
    /\ WF_vars(OnLoad \/ OnError)
    /\ WF_vars(TimerFires)
    /\ WF_vars(Commit)

----------------------------------------------------------------------------
(* The loader and React on a window that keeps its size and a document    *)
(* that keeps its scroll position, which it took before the first batch   *)
(* was published; with the fairness of the loader's scheduling.           *)

InitPublish ==
    /\ \E p \in ProgressValues : MountedAt(p)
    /\ viewport = [w |-> 1920, h |-> 1080]
    /\ frameSize = [w |-> 1280, h |-> 720]
    /\ failing \in FailingSets

NextPublish ==
    \/ OnLoad
    \/ OnError
    \/ TimerFires
    \/ Commit

FairPublishSpec ==
    /\ InitPublish
    /\ [][NextPublish]_vars
    /\ WF_vars(OnLoad \/ OnError)
    /\ WF_vars(TimerFires)
    /\ WF_vars(Commit)

----------------------------------------------------------------------------
(* The loader and the smooth-scroll effect while App is mounted and after *)
(* it has been unmounted.                                                 *)

InitTeardown ==
    /\ Mounted
    /\ viewport = [w |-> 1920, h |-> 1080]
    /\ frameSize = [w |-> 1280, h |-> 720]
    /\ failing \in FailingSets

NextTeardown ==
    \/ OnLoad
    \/ OnError
    \/ TimerFires
    \/ Commit
    \/ RafTick
    \/ Unmount

TeardownSpec == InitTeardown /\ [][NextTeardown]_vars

----------------------------------------------------------------------------
(* The renderer alone, once the whole sequence has loaded: the smoothed   *)
(* progress moves in small steps over its whole range and beyond both     *)
(* ends, and the window is resized.                                       *)

\* largest change of smoothProgress in one step, in units of 1 / PDen
MaxStep == 3

\* how far smoothProgress goes below 0 and above 1, in units of 1 / PDen
Overshoot == 20

\* the loader has finished without a failure, React has rendered the last
\* snapshot and the timeout has fired
Loaded ==
    /\ heap = [k \in 1..imagePathsLength |->
                  [src |-> k - 1, state |-> "complete"]]
    /\ loadedImages = [k \in 1..imagePathsLength |-> k]
    /\ batchPromises = {}
    /\ loopIndex = 145
    /\ loaderPc = "done"
    /\ published = loadedImages
    /\ uncommitted = 0
    /\ images = published
    /\ subscribed = TRUE
    /\ isLoading = FALSE
    /\ timers = 0
    /\ issueLog = [k \in 1..29 |-> <<5 * (k - 1), endIndex(5 * (k - 1))>>]
    /\ publishLog = [k \in 1..29 |-> 5 * (k - 1)]
    /\ timerLog = <<0>>
    /\ failing = {}
    /\ mounted = TRUE
    /\ lenis = "running"
    /\ rafPending = TRUE
    /\ lastTick = "none"

InitRender ==
    /\ Loaded
    /\ smoothProgress = 0
    /\ viewport \in RenderViewports
    /\ frameSize \in RenderFrameSizes
    /\ canvas = viewport
    /\ LET r == render(images, heap, frameIndex(0), viewport, Blank,
                       "mount", 0)
       IN surface = r.surface /\ pass = r.pass

\* the spring moves smoothProgress by a small step
SpringStep ==
    \E d \in (0 - MaxStep)..MaxStep :
        /\ smoothProgress + d >= 0 - Overshoot
        /\ smoothProgress + d <= PDen + Overshoot
        /\ ProgressTo(smoothProgress + d)

ResizeRender == \E v \in RenderViewports : ResizeTo(v)

NextRender ==
    \/ SpringStep
    \/ ResizeRender

RenderSpec == InitRender /\ [][NextRender]_vars

----------------------------------------------------------------------------
(* Claims *)

\* image objects whose load is in flight
InFlight == {img \in DOMAIN heap : heap[img].state = "loading"}

\* the batch an index belongs to
BatchOf(i) == i \div BATCH_SIZE

\* C1: at every moment at most 5 image loads are in flight, and a load of
\* a batch is issued only when every load of every earlier batch has
\* settled.
C1_BatchBarrier ==
    /\ Cardinality(InFlight) <= 5
    /\ \A b \in InFlight : \A a \in DOMAIN heap :
          BatchOf(heap[a].src) <= BatchOf(heap[b].src)

\* a later batch is fully in flight
C1_Witness ==
    /\ loopIndex >= 2 * BATCH_SIZE
    /\ Cardinality(InFlight) = BATCH_SIZE

\* C2: the loader issues 29 batches, the first 28 of 5 indices and the
\* last of the 4 indices 140..143, never an index >= 144; there is one
\* publish per batch and the publishes happen in batch order.
C2_Batches ==
    /\ Len(issueLog) <= 29
    /\ \A k \in DOMAIN issueLog :
          /\ issueLog[k][1] = 5 * (k - 1)
          /\ issueLog[k][2] - issueLog[k][1] = (IF k <= 28 THEN 5 ELSE 4)
    /\ \A img \in DOMAIN heap : heap[img].src \in 0..143
    /\ \A k \in DOMAIN publishLog :
          /\ k \in DOMAIN issueLog
          /\ publishLog[k] = issueLog[k][1]
    /\ Len(issueLog) <= Len(publishLog) + 1
    /\ loaderPc = "done" =>
          /\ Len(issueLog) = 29
          /\ Len(publishLog) = 29
          /\ issueLog[29] = <<140, 144>>
          /\ Len(heap) = 144

\* the loader has finished
C2_Witness == loaderPc = "done" /\ Len(publishLog) = 29

\* C3: whatever set of images fails to load, when every load settles all
\* 29 batches are eventually published and the loader terminates.
C3_Terminates == <>(loaderPc = "done" /\ Len(publishLog) = 29)

\* the loader has finished although images of a first, a middle and the
\* last batch failed
C3_Witness ==
    /\ loaderPc = "done"
    /\ failing = {0, 36, 72, 143}
    /\ \A img \in DOMAIN heap :
          heap[img].state = (IF heap[img].src \in failing THEN "broken"
                             ELSE "complete")

\* C4: an index whose image failed to load is an empty slot of every
\* published snapshot: no failed image object is published.
C4_FailedSlotEmpty ==
    \A k \in DOMAIN published :
        published[k] # Hole => heap[published[k]].state # "broken"

\* C5: when all batches have been published, a render call for an index
\* whose image failed to load is skipped: it neither clears the canvas nor
\* draws.
C5_FailedFrameSkipped ==
    (Len(publishLog) = 29 /\ pass.trigger # "none" /\ pass.index \in failing)
        => (~pass.cleared /\ ~pass.drew)

\* C6: a render pass triggered by a progress change or by a resize for an
\* index without an image paints nothing and leaves the surface as it was.
C6_StaleNotBlank ==
    [][(/\ pass' # pass
        /\ pass'.trigger \in {"change", "resize"}
        /\ pass'.img = Hole) => surface' = surface]_vars

\* C7: the published snapshots only grow: an index present in a snapshot
\* is present in the next with the same image object, the length never
\* decreases, and a step of the renderer (React rendering the effect, a
\* resize, a progress change) or of the timer leaves the loader's array
\* and the published snapshot as they are.
C7_GrowsOnly ==
    /\ [][/\ Len(published') >= Len(published)
          /\ \A k \in DOMAIN published :
                published[k] # Hole => published'[k] = published[k]]_vars
    /\ [][(images' # images \/ pass' # pass \/ surface' # surface
               \/ canvas' # canvas \/ viewport' # viewport
               \/ smoothProgress' # smoothProgress \/ isLoading' # isLoading)
            => UNCHANGED <<loadedImages, published>>]_vars

\* two batches have been published and the renderer has painted
C7_Witness ==
    /\ Len(publishLog) >= 2
    /\ Len(published) = 10
    /\ pass.drew

\* C8: the timeout that ends the loading state is set once, by batch 0,
\* when batch 0 has settled and been published; isLoading does not become
\* false before that and never becomes true again; it eventually becomes
\* false.
C8_ReadyOnce ==
    /\ [](/\ Len(timerLog) <= 1
          /\ timerLog # <<>> =>
                /\ timerLog = <<0>>
                /\ Len(publishLog) >= 1
                /\ \A img \in DOMAIN heap :
                      heap[img].src < 5 => heap[img].state # "loading"
          /\ timers > 0 => timerLog # <<>>
          /\ ~isLoading => timerLog # <<>>
          /\ loaderPc = "done" => Len(timerLog) = 1)
    /\ [][~isLoading => ~isLoading']_vars
    /\ <>(~isLoading)

\* the loading state has ended and the loader has finished
C8_Witness == ~isLoading /\ loaderPc = "done" /\ Len(timerLog) = 1

\* C9: the index a render call uses is within 0..143 for every progress,
\* also below 0 and above 1, and for a progress p in [0, 1] it is the
\* integer nearest to 143 p: 0 at p = 0, 72 at p = 1/2, 143 at p = 1.
C9_FrameIndex ==
    pass.trigger # "none" =>
        LET p == pass.progress
            idx == pass.index
        IN /\ idx \in 0..143
           /\ (p >= 0 /\ p <= PDen) =>
                 /\ 2 * idx * PDen - PDen <= 2 * 143 * p
                 /\ 2 * 143 * p < 2 * idx * PDen + PDen
           /\ p = 0 => idx = 0
           /\ 2 * p = PDen => idx = 72
           /\ p = PDen => idx = 143
           /\ p < 0 => idx = 0
           /\ p > PDen => idx = 143

\* a resize has rendered the last frame while the progress was above 1
C9_Witness ==
    /\ pass.trigger = "resize"
    /\ pass.progress > PDen
    /\ pass.index = 143
    /\ pass.drew

\* C10: whenever render draws an image (of positive size), the scaled
\* image is at least as wide and as high as the surface, with equality on
\* at least one axis, and the drawn rectangle, placed at offset
\* (surface - scaled) / 2, contains the whole surface: neither offset is
\* positive.
C10_CoverFit ==
    pass.drew =>
        /\ ~Less(surface.dw.mag, FromInt(canvas.w))
        /\ ~Less(surface.dh.mag, FromInt(canvas.h))
        /\ \/ surface.dw.mag = FromInt(canvas.w)
           \/ surface.dh.mag = FromInt(canvas.h)
        /\ surface.dx.neg \/ surface.dx.mag = Zero
        /\ surface.dy.neg \/ surface.dy.mag = Zero

\* C11: whenever a render pass has painted (cleared or drawn), the canvas
\* has the width and height of the window at that moment, and keeps
\* having them for as long as that paint is the latest pass, whatever
\* publishes, resize events and progress changes came before.
C11_SurfaceIsViewport ==
    (pass.cleared \/ pass.drew) => canvas = viewport

\* a progress change has painted a frame at the window's size 393 x 873,
\* after a second publish
C11_Witness ==
    /\ pass.trigger = "change"
    /\ pass.drew
    /\ Len(publishLog) >= 2
    /\ canvas = [w |-> 393, h |-> 873]
    /\ surface.dw.mag = FromInt(1552)

\* the image object the snapshot imgs holds for the frame that progress p
\* selects, Hole when it holds none
SelectedImage(imgs, p) == ArrayGet(imgs, MathRound(frameIndex(p)))

\* C12: every resize event gives the canvas the window's new size and, in
\* the same step, repaints the currently selected frame at that size: the
\* step leaves the progress alone, its render pass is the resize's, and it
\* draws the selected frame's image on a canvas of the new size.
C12_ResizeRepaints ==
    [][viewport' # viewport =>
          /\ canvas' = viewport'
          /\ smoothProgress' = smoothProgress
          /\ pass'.trigger = "resize"
          /\ pass'.index = MathRound(frameIndex(smoothProgress))
          /\ pass'.drew
          /\ surface'.img # Hole
          /\ heap[surface'.img].src = pass'.index]_vars

\* C13: once App is unmounted (the cleanup of the smooth-scroll effect has
\* run and the Lenis instance is destroyed), no animation frame callback
\* of the raf loop is requested any more and none has run on the destroyed
\* instance.
C13_TeardownStopsRaf ==
    ~mounted => (~rafPending /\ lastTick # "destroyed")

\* the progress smoothProgress / PDen lies in [lo / 100, hi / 100]
Within(lo, hi) ==
    lo * PDen <= 100 * smoothProgress /\ 100 * smoothProgress <= hi * PDen

\* the progress smoothProgress / PDen is not inside ]lo / 100, hi / 100[
Outside(lo, hi) ==
    100 * smoothProgress <= lo * PDen \/ hi * PDen <= 100 * smoothProgress

\* C14: each overlay opacity is exactly 0 at every progress outside its
\* window ([0, 0.35], [0.35, 0.7], [0.7, 1]) and at the window's two ends,
\* and exactly 1 throughout its hold range ([0.15, 0.25], [0.5, 0.6],
\* [0.85, 0.95]); at progress 0.5 text 2 has opacity 1 and texts 1 and 3
\* have opacity 0.
C14_OverlayOpacity ==
    LET o1 == text1Opacity(smoothProgress)
        o2 == text2Opacity(smoothProgress)
        o3 == text3Opacity(smoothProgress)
    IN /\ o1.den > 0 /\ o2.den > 0 /\ o3.den > 0
       /\ Outside(0, 35) => o1.num = 0
       /\ Outside(35, 70) => o2.num = 0
       /\ Outside(70, 100) => o3.num = 0
       /\ Within(15, 25) => o1.num = o1.den
       /\ Within(50, 60) => o2.num = o2.den
       /\ Within(85, 95) => o3.num = o3.den
       /\ 2 * smoothProgress = PDen =>
             o1.num = 0 /\ o2.num = o2.den /\ o3.num = 0

\* the smoothed progress has moved to 0.5 and its frame is painted
C14_Witness ==
    /\ 2 * smoothProgress = PDen
    /\ pass.trigger = "change"
    /\ pass.progress = smoothProgress
    /\ pass.drew

\* C15: every render pass reads the latest published snapshot: a render
\* pass triggered by a progress change or by a resize uses the snapshot
\* that was published last, never an older one.
C15_ReadsLatest ==
    [][(/\ pass' # pass
        /\ pass'.trigger \in {"change", "resize"}) => images = published]_vars

\* C16: a render pass that paints has cleared the surface before drawing,
\* so that the surface shows the frame of that pass and nothing else, and
\* a pass that clears always also draws.
C16_ClearThenDraw ==
    /\ pass.drew => (pass.cleared /\ surface.img = pass.img)
    /\ pass.cleared => pass.drew

\* C17: every published snapshot contains only images whose load has
\* settled: the snapshot published after batch k holds exactly the indices
\* 0 .. min(5(k+1), 144) - 1, each with the image object of that index, and
\* no image that is still loading; nothing is published before batch 0
\* has settled. The snapshot React has rendered is such a snapshot too.
C17_SettledPrefix ==
    /\ Len(published) = Min(5 * Len(publishLog), 144)
    /\ \A k \in DOMAIN publishLog : publishLog[k] = 5 * (k - 1)
    /\ \A i \in DOMAIN published :
          /\ published[i] # Hole
          /\ heap[published[i]].src = i - 1
          /\ heap[published[i]].state # "loading"
    /\ Len(images) <= Len(published)
    /\ \A i \in DOMAIN images :
          /\ images[i] = published[i]
          /\ heap[images[i]].state # "loading"

\* a snapshot is published while the working array already holds the
\* images of the next batch, which are still loading
C17_Witness ==
    /\ Len(publishLog) >= 2
    /\ Len(loadedImages) > Len(published)
    /\ \A i \in (Len(published) + 1)..Len(loadedImages) :
          /\ loadedImages[i] # Hole
          /\ heap[loadedImages[i]].state = "loading"

\* the selected frame's image is in the published snapshot and loaded
AvailableSelected ==
    /\ SelectedImage(published, smoothProgress) # Hole
    /\ heap[SelectedImage(published, smoothProgress)].state = "complete"

\* the surface shows the selected frame
ShowsSelected ==
    /\ surface.img # Hole
    /\ surface.img = SelectedImage(published, smoothProgress)

\* C18: when a publish makes the selected frame's image available, the
\* frame is painted as a consequence of that publish alone: the step in
\* which React renders the publish paints the selected frame, with the
\* progress and the window as they were, and so the surface eventually
\* shows the selected frame when the progress stays constant.
C18_PublishPaints ==
    /\ [][(/\ images' # images
           /\ SelectedImage(images', smoothProgress) # Hole
           /\ heap[SelectedImage(images', smoothProgress)].state = "complete")
          => /\ smoothProgress' = smoothProgress
             /\ viewport' = viewport
             /\ pass'.trigger = "mount"
             /\ pass'.drew
             /\ surface'.img = SelectedImage(images', smoothProgress)]_vars
    /\ AvailableSelected ~> ShowsSelected

\* the progress selected frame 36 before its batch was published, and
\* React's rendering of that publish has painted the frame
C18_Witness ==
    /\ smoothProgress = 710
    /\ failing = {}
    /\ Len(images) = 40
    /\ pass.trigger = "mount"
    /\ pass.index = 36
    /\ pass.drew
    /\ ShowsSelected

====
